---- MODULE Spec2Model ----
(***************************************************************************)
(* Shion-API: the event service of internal/server (gin handlers) over the *)
(* store of internal/database.                                             *)
(*                                                                         *)
(* Text values whose characters matter to the code (ids, the max query    *)
(* value) are sequences of one-character strings; opaque text (type, data, *)
(* timestamp) is a TLA+ string.                                            *)
(*                                                                         *)
(* routes.go calls the store through database.TursoDB, a type that is not  *)
(* among the source files.  CreateEvent and GetEventByID are taken to be   *)
(* CreateEvent and GetEvent of database.go; GetLatestEvents(max) has no    *)
(* counterpart there and is modelled from the specification.               *)
(*                                                                         *)
(* Each handler is one atomic step, and the exchanges are served one after *)
(* the other: req and resp hold the exchange being served until Finish.    *)
(* The placeholder WebSocket route is left out.                            *)
(***************************************************************************)
EXTENDS Integers, Sequences, FiniteSets, TLC

VARIABLES
    rows,       \* table events(id, type, data, timestamp), in insertion order
    running,    \* the server process is alive
    req,        \* the request being served (op "none": no exchange is open)
    resp,       \* the response written for it (status 0: none was written)
    pc,         \* New(): each caller's position
    localDb,    \* New(): the handle sql.Open returned to the caller (0: none)
    got,        \* New(): the handle New() returned to the caller (0: none yet)
    dbInstance, \* package variable dbInstance (0: nil)
    opened      \* number of sql.Open calls so far

vars == <<rows, running, req, resp, pc, localDb, got, dbInstance, opened>>
storeVars == <<rows, running, req, resp>>
newVars == <<pc, localDb, got, dbInstance, opened>>

----------------------------------------------------------------------------
(* Bounds *)

MaxRows == 3
MaxBatch == 2
MaxQueryLen == 2
MaxProcs == 3

----------------------------------------------------------------------------
(* Text *)

Hex == <<"0", "1", "2", "3", "4", "5", "6", "7", "8", "9",
         "a", "b", "c", "d", "e", "f">>

Digits == {Hex[i] : i \in 1..10}

DigitVal(c) == (CHOOSE i \in 1..10 : Hex[i] = c) - 1

EmptyText == <<>>

\* strconv.FormatUint(n, 10)
RECURSIVE FormatUint(_)
FormatUint(n) ==
    IF n < 10 THEN <<Hex[n + 1]>>
    ELSE Append(FormatUint(n \div 10), Hex[(n % 10) + 1])

\* value of a non-empty run of decimal digits
RECURSIVE DigitsValue(_)
DigitsValue(s) ==
    IF Len(s) = 0 THEN 0
    ELSE 10 * DigitsValue(SubSeq(s, 1, Len(s) - 1)) + DigitVal(s[Len(s)])

AllDigits(s) == \A i \in 1..Len(s) : s[i] \in Digits

\* strconv.ParseUint(s, 10, 64), as database/sql's convertAssign uses it to scan
\* a text column into an unsigned integer field
ParseUint(s) ==
    IF Len(s) = 0 \/ ~AllDigits(s)
    THEN [ok |-> FALSE, val |-> 0]
    ELSE [ok |-> TRUE, val |-> DigitsValue(s)]

\* strconv.Atoi(s): an optional sign, then one or more decimal digits
Atoi(s) ==
    LET signed == Len(s) > 0 /\ s[1] \in {"-", "+"}
        body == IF signed THEN SubSeq(s, 2, Len(s)) ELSE s
    IN  IF Len(body) = 0 \/ ~AllDigits(body)
        THEN [ok |-> FALSE, val |-> 0]
        ELSE [ok |-> TRUE,
              val |-> IF signed /\ s[1] = "-" THEN 0 - DigitsValue(body)
                      ELSE DigitsValue(body)]

\* uuid.NewString(): the canonical 36-character form of a version 4 UUID whose
\* random bits are n
NewString(n) ==
    [i \in 1..36 |->
        IF i \in {9, 14, 19, 24} THEN "-"
        ELSE IF i = 15 THEN "4"
        ELSE IF i = 20 THEN "8"
        ELSE IF i = 36 THEN Hex[(n % 16) + 1]
        ELSE IF i = 35 THEN Hex[((n \div 16) % 16) + 1]
        ELSE "0"]

----------------------------------------------------------------------------
(* Inputs *)

\* EventEntry as bound from a request body: gorm.Model's ID and the three
\* tagged fields
Fields ==
    { [Type |-> "a", Data |-> "1", Timestamp |-> ""],
      [Type |-> "b", Data |-> "2", Timestamp |-> "t"],
      [Type |-> "", Data |-> "2", Timestamp |-> ""],
      [Type |-> "a", Data |-> "", Timestamp |-> "t"],
      [Type |-> "", Data |-> "", Timestamp |-> ""] }

Payloads ==
    {[ID |-> id, Type |-> f.Type, Data |-> f.Data, Timestamp |-> f.Timestamp] :
        id \in {0, 7}, f \in Fields}

BatchItems ==
    { [ID |-> 0, Type |-> "a", Data |-> "1", Timestamp |-> ""],
      [ID |-> 0, Type |-> "", Data |-> "2", Timestamp |-> ""],
      [ID |-> 7, Type |-> "b", Data |-> "2", Timestamp |-> "t"] }

RECURSIVE SeqsUpTo(_, _)
SeqsUpTo(S, n) ==
    IF n = 0 THEN {<<>>}
    ELSE LET shorter == SeqsUpTo(S, n - 1)
         IN  shorter \cup {Append(s, x) : s \in {t \in shorter : Len(t) = n - 1}, x \in S}

Batches == SeqsUpTo(BatchItems, MaxBatch)

\* random bits uuid.NewString may draw: as many as the table may hold rows
UUIDBits == 1..MaxRows

QueryChars == {"0", "2", "-", "x"}

\* the query string's value for a key: absent, or present with some text
QueryValues ==
    {[present |-> FALSE, text |-> EmptyText]}
        \cup {[present |-> TRUE, text |-> t] : t \in SeqsUpTo(QueryChars, MaxQueryLen)}

QueryIds ==
    {EmptyText, <<"7">>} \cup {NewString(n) : n \in UUIDBits}

NoPayload == [ID |-> 0, Type |-> "", Data |-> "", Timestamp |-> ""]
NoQuery == [present |-> FALSE, text |-> EmptyText]

Request(op, auth) ==
    [op |-> op, auth |-> auth, payload |-> NoPayload, batch |-> <<>>,
     id |-> EmptyText, max |-> NoQuery, fault |-> 0]

Response(status, err) ==
    [status |-> status, err |-> err, ids |-> <<>>, events |-> <<>>,
     health |-> <<>>, queried |-> FALSE, max |-> 0]

----------------------------------------------------------------------------
(* internal/database *)

Ids(rs) == {rs[i].id : i \in 1..Len(rs)}

\* random bits whose UUID is not in the table
FreshBits(rs) == {n \in UUIDBits : NewString(n) \notin Ids(rs)}

\* an INSERT that evicts the oldest row
InsertRowEvict(rs, id, e) ==
    Append(IF Len(rs) = 0 THEN rs ELSE Tail(rs),
           [id |-> id, type |-> e.Type, data |-> e.Data, timestamp |-> e.Timestamp])

\* INSERT INTO events (ID, Type, Data, Timestamp) VALUES (?, ?, ?, ?)
InsertRow(rs, id, e) ==
    Append(rs, [id |-> id, type |-> e.Type, data |-> e.Data,
                timestamp |-> e.Timestamp])

\* CreateEvent storing the id the caller sent instead of a generated one
CreateEventCallerId(rs, e, n, ok) ==
    IF ~ok
    THEN [rows |-> rs, id |-> EmptyText, err |-> "exec"]
    ELSE [rows |-> Append(rs, [id |-> FormatUint(e.ID), type |-> e.Type,
                               data |-> e.Data, timestamp |-> e.Timestamp]),
          id |-> FormatUint(e.ID), err |-> ""]

\* service.CreateEvent: n is the UUID drawn, ok whether ExecContext succeeded
\* within its deadline
CreateEvent(rs, e, n, ok) ==
    LET newId == NewString(n)
    IN  IF ~ok
        THEN [rows |-> rs, id |-> EmptyText, err |-> "exec"]
        ELSE [rows |-> InsertRow(rs, newId, e), id |-> newId, err |-> ""]

\* rows.Scan(&e.ID, &e.Type, &e.Data, &e.Timestamp): ID is gorm.Model's uint
ScanRow(r) ==
    LET n == ParseUint(r.id)
    IN  IF ~n.ok
        THEN [err |-> "scan", event |-> NoPayload]
        ELSE [err |-> "",
              event |-> [ID |-> n.val, Type |-> r.type, Data |-> r.data,
                         Timestamp |-> r.timestamp]]

\* GetEvent falling back to the oldest row when no id matches
GetEventFirstRow(rs, id, ok) ==
    LET hits == {i \in 1..Len(rs) : rs[i].id = id}
    IN  IF ~ok THEN [err |-> "query", event |-> NoPayload]
        ELSE IF Len(rs) = 0 THEN [err |-> "ErrNoRows", event |-> NoPayload]
        ELSE IF hits = {} THEN ScanRow(rs[1])
        ELSE ScanRow(rs[CHOOSE i \in hits : \A j \in hits : i <= j])

\* service.GetEvent: SELECT ... WHERE id = ?, then Scan
GetEvent(rs, id, ok) ==
    LET hits == {i \in 1..Len(rs) : rs[i].id = id}
    IN  IF ~ok THEN [err |-> "query", event |-> NoPayload]
        ELSE IF hits = {} THEN [err |-> "ErrNoRows", event |-> NoPayload]
        ELSE ScanRow(rs[CHOOSE i \in hits : \A j \in hits : i <= j])

Min(a, b) == IF a < b THEN a ELSE b

Reverse(s) == [i \in 1..Len(s) |-> s[Len(s) + 1 - i]]

\* TursoDB.GetLatestEvents(max): at most max rows, the most recent first
GetLatestEvents(rs, max, ok) ==
    IF ~ok THEN [err |-> "query", events |-> <<>>]
    ELSE [err |-> "",
          events |-> IF max <= 0 THEN <<>>
                     ELSE SubSeq(Reverse(rs), 1, Min(max, Len(rs)))]

\* service.CreateEvents: one INSERT per entry, in order, under one deadline; the
\* first failing INSERT (the fault-th, 0: none) returns the error and no ids.
\* us are the UUIDs drawn, one per entry.
RECURSIVE CreateEventsFrom(_, _, _, _, _, _)
CreateEventsFrom(rs, events, us, fault, i, ids) ==
    IF i > Len(events) THEN [rows |-> rs, ids |-> ids, err |-> ""]
    ELSE IF fault = i THEN [rows |-> rs, ids |-> <<>>, err |-> "exec"]
    ELSE CreateEventsFrom(InsertRow(rs, NewString(us[i]), events[i]), events, us,
                          fault, i + 1, Append(ids, NewString(us[i])))

CreateEvents(rs, events, us, fault) == CreateEventsFrom(rs, events, us, fault, 1, <<>>)

\* sql.DBStats as Health reads it
PoolStats ==
    {[OpenConnections |-> open, InUse |-> open, Idle |-> 0, WaitCount |-> wait,
      MaxIdleClosed |-> idleClosed, MaxLifetimeClosed |-> lifetimeClosed] :
        open \in {0, 41}, wait \in {0, 1001}, idleClosed \in {0, 1},
        lifetimeClosed \in {0, 21}}

HeavyLoadOpenConnections == 40
HighWaitCount == 1000

\* the message Health derives from the pool statistics; later tests overwrite
\* earlier ones
HealthMessage(st) ==
    IF st.MaxLifetimeClosed > st.OpenConnections \div 2 THEN "max lifetime"
    ELSE IF st.MaxIdleClosed > st.OpenConnections \div 2 THEN "idle closed"
    ELSE IF st.WaitCount > HighWaitCount THEN "wait events"
    ELSE IF st.OpenConnections > HeavyLoadOpenConnections THEN "heavy load"
    ELSE "It's healthy"

\* service.Health: the map it builds, and whether it returns. A failed ping
\* ends in log.Fatalf, which exits the process before the return statement.
\* wait_duration, a formatted time.Duration, is left out of the map.
Health(pingOk, st) ==
    IF ~pingOk
    THEN [stats |-> [status |-> "down", error |-> "db down: ping failed"],
          returns |-> FALSE]
    ELSE [stats |-> [status |-> "up", message |-> HealthMessage(st),
                     open_connections |-> FormatUint(st.OpenConnections),
                     in_use |-> FormatUint(st.InUse),
                     idle |-> FormatUint(st.Idle),
                     wait_count |-> FormatUint(st.WaitCount),
                     max_idle_closed |-> FormatUint(st.MaxIdleClosed),
                     max_lifetime_closed |-> FormatUint(st.MaxLifetimeClosed)],
          returns |-> TRUE]

----------------------------------------------------------------------------
(* internal/server *)

\* validation that requires Type only
ValidateTypeOnly(e) == e.Type # ""

\* binding:"required" on Type and Data: the validator rejects the zero value
Validate(e) == e.Type # "" /\ e.Data # ""

\* c.ShouldBind(&entries): gin validates every element of a bound slice
ValidateAll(entries) == \A i \in 1..Len(entries) : Validate(entries[i])

\* c.Param("id") in getEventHandler: the route is registered as "/event", with
\* no ":id" segment, so no path parameter is bound and Param returns ""
ParamId(r) == EmptyText

\* the handler ignoring the query value and always using the default
MaxStrAlwaysDefault(q) == <<"5", "0">>

\* c.DefaultQuery("max", "50"), then the handler's own default for ""
DefaultMaxStr == <<"5", "0">>

MaxStr(q) ==
    LET s == IF q.present THEN q.text ELSE DefaultMaxStr
    IN  IF s = EmptyText THEN DefaultMaxStr ELSE s

\* injective sequences of k fresh UUID draws
Draws(rs, k) ==
    {us \in [1..k -> FreshBits(rs)] : \A i, j \in 1..k : i # j => us[i] # us[j]}

\* the loop skipping a failed entry and inserting the rest
RECURSIVE EventsLoopContinue(_, _, _, _, _, _)
EventsLoopContinue(rs, entries, us, fault, i, ids) ==
    IF i > Len(entries)
    THEN [rows |-> rs, ids |-> <<>>, err |-> IF fault = 0 THEN "" ELSE "exec"]
    ELSE IF fault = i THEN EventsLoopContinue(rs, entries, us, fault, i + 1, ids)
    ELSE EventsLoopContinue(
             Append(rs, [id |-> NewString(us[i]), type |-> entries[i].Type,
                         data |-> entries[i].Data,
                         timestamp |-> entries[i].Timestamp]),
             entries, us, fault, i + 1, ids)

\* the loop of incomingEventsHandler: CreateEvent per entry, stop at the first
\* error with status 500 and no per-item responses
RECURSIVE EventsLoop(_, _, _, _, _, _)
EventsLoop(rs, entries, us, fault, i, ids) ==
    IF i > Len(entries) THEN [rows |-> rs, ids |-> ids, err |-> ""]
    ELSE LET r == CreateEvent(rs, entries[i], us[i], fault # i)
         IN  IF r.err # "" THEN [rows |-> r.rows, ids |-> <<>>, err |-> r.err]
             ELSE EventsLoop(r.rows, entries, us, fault, i + 1, Append(ids, r.id))

UnchangedNew == UNCHANGED newVars

\* basicAuthMiddleware: a request without the configured credentials is aborted
\* with 401 before its handler runs
Unauthorized(op) ==
    /\ running
    /\ req.op = "none"
    /\ req' = Request(op, FALSE)
    /\ resp' = Response(401, "Unauthorized")
    /\ UNCHANGED <<rows, running>>
    /\ UnchangedNew

\* POST /event
incomingEventHandler(p, n, ok) ==
    /\ running
    /\ req.op = "none"
    /\ req' = [Request("postEvent", TRUE) EXCEPT !.payload = p,
                                                !.fault = IF ok THEN 0 ELSE 1]
    /\ IF ~Validate(p)
       THEN /\ ok /\ n = 1       \* the store is not reached: nothing is drawn
            /\ resp' = Response(400, "validation")
            /\ rows' = rows
       ELSE LET r == CreateEvent(rows, p, n, ok)
            IN  /\ n \in FreshBits(rows)
                /\ Len(r.rows) <= MaxRows
                /\ rows' = r.rows
                /\ resp' = IF r.err # ""
                           THEN [Response(500, r.err) EXCEPT !.queried = TRUE]
                           ELSE [Response(200, "") EXCEPT !.queried = TRUE,
                                                          !.ids = <<r.id>>]
    /\ UNCHANGED running
    /\ UnchangedNew

\* POST /events
incomingEventsHandler(entries, us, fault) ==
    /\ running
    /\ req.op = "none"
    /\ req' = [Request("postEvents", TRUE) EXCEPT !.batch = entries, !.fault = fault]
    /\ IF ~ValidateAll(entries)
       THEN /\ fault = 0          \* the store is not reached
            /\ resp' = Response(400, "validation")
            /\ rows' = rows
       ELSE LET r == EventsLoop(rows, entries, us, fault, 1, <<>>)
            IN  /\ rows' = r.rows
                /\ resp' = IF r.err # ""
                           THEN [Response(500, r.err) EXCEPT !.queried = TRUE]
                           ELSE [Response(200, "") EXCEPT !.queried = Len(entries) > 0,
                                                          !.ids = r.ids]
    /\ UNCHANGED running
    /\ UnchangedNew

\* GET /event
getEventHandler(id, ok) ==
    /\ running
    /\ req.op = "none"
    /\ req' = [Request("getEvent", TRUE) EXCEPT !.id = id,
                                               !.fault = IF ok THEN 0 ELSE 1]
    /\ LET r == GetEvent(rows, ParamId(req'), ok)
       IN  resp' = IF r.err # ""
                   THEN [Response(500, r.err) EXCEPT !.queried = TRUE]
                   ELSE [Response(200, "") EXCEPT !.queried = TRUE,
                                                  !.events = <<r.event>>]
    /\ UNCHANGED <<rows, running>>
    /\ UnchangedNew

\* GET /events
getEventsHandler(q, ok) ==
    /\ running
    /\ req.op = "none"
    /\ req' = [Request("getEvents", TRUE) EXCEPT !.max = q,
                                                !.fault = IF ok THEN 0 ELSE 1]
    /\ LET max == Atoi(MaxStr(q))
       IN  IF ~max.ok
           THEN /\ ok             \* the store is not reached
                /\ resp' = Response(500, "atoi")
           ELSE LET r == GetLatestEvents(rows, max.val, ok)
                IN  resp' = IF r.err # ""
                            THEN [Response(500, r.err) EXCEPT !.queried = TRUE,
                                                              !.max = max.val]
                            ELSE [Response(200, "") EXCEPT !.queried = TRUE,
                                                           !.max = max.val,
                                                           !.events = r.events]
    /\ UNCHANGED <<rows, running>>
    /\ UnchangedNew

\* GET /health/db
dbHealthHandler(pingOk, st) ==
    /\ running
    /\ req.op = "none"
    /\ req' = [Request("healthDb", TRUE) EXCEPT !.fault = IF pingOk THEN 0 ELSE 1]
    /\ LET h == Health(pingOk, st)
       IN  /\ running' = h.returns
           /\ resp' = IF h.returns
                      THEN [Response(200, "") EXCEPT !.queried = TRUE,
                                                     !.health = h.stats]
                      ELSE [Response(0, "fatal") EXCEPT !.queried = TRUE,
                                                        !.health = h.stats]
    /\ UNCHANGED rows
    /\ UnchangedNew

\* GET /health/liveness and /health/readiness
basicHealthHandler ==
    /\ running
    /\ req.op = "none"
    /\ req' = Request("health", TRUE)
    /\ resp' = Response(200, "")
    /\ UNCHANGED <<rows, running>>
    /\ UnchangedNew

\* the handler has returned and net/http has finished the exchange; the server
\* goes on to the next request
Finish ==
    /\ running
    /\ req.op # "none"
    /\ req' = Request("none", TRUE)
    /\ resp' = Response(0, "")
    /\ UNCHANGED <<rows, running>>
    /\ UnchangedNew

Ops == {"postEvent", "postEvents", "getEvent", "getEvents", "healthDb", "health"}

----------------------------------------------------------------------------
(* database.New *)

Procs == 1..MaxProcs

\* if dbInstance != nil { return dbInstance }
NewCheck(p) ==
    /\ pc[p] = "check"
    /\ IF dbInstance # 0
       THEN /\ got' = [got EXCEPT ![p] = dbInstance]
            /\ pc' = [pc EXCEPT ![p] = "done"]
       ELSE /\ pc' = [pc EXCEPT ![p] = "open"]
            /\ got' = got
    /\ UNCHANGED <<localDb, dbInstance, opened>>
    /\ UNCHANGED storeVars

\* db, err := sql.Open("sqlite3", dbUrl)
NewOpen(p) ==
    /\ pc[p] = "open"
    /\ opened' = opened + 1
    /\ localDb' = [localDb EXCEPT ![p] = opened + 1]
    /\ pc' = [pc EXCEPT ![p] = "store"]
    /\ UNCHANGED <<got, dbInstance>>
    /\ UNCHANGED storeVars

\* dbInstance = &service{db: db}; return dbInstance
NewStore(p) ==
    /\ pc[p] = "store"
    /\ dbInstance' = localDb[p]
    /\ got' = [got EXCEPT ![p] = localDb[p]]
    /\ pc' = [pc EXCEPT ![p] = "done"]
    /\ UNCHANGED <<localDb, opened>>
    /\ UNCHANGED storeVars

----------------------------------------------------------------------------
(* Specifications *)

\* a server built by NewServer, which called New() once, over an empty table
Init ==
    /\ rows = <<>>
    /\ running = TRUE
    /\ req = Request("none", TRUE)
    /\ resp = Response(0, "")
    /\ pc = [p \in Procs |-> IF p = 1 THEN "done" ELSE "idle"]
    /\ localDb = [p \in Procs |-> IF p = 1 THEN 1 ELSE 0]
    /\ got = [p \in Procs |-> IF p = 1 THEN 1 ELSE 0]
    /\ dbInstance = 1
    /\ opened = 1

Next ==
    \/ \E op \in Ops : Unauthorized(op)
    \/ \E p \in Payloads, n \in UUIDBits, ok \in BOOLEAN :
          incomingEventHandler(p, n, ok)
    \/ \E entries \in Batches :
          /\ Len(rows) + Len(entries) <= MaxRows
          /\ \E us \in Draws(rows, Len(entries)), fault \in 0..Len(entries) :
                incomingEventsHandler(entries, us, fault)
    \/ \E id \in QueryIds, ok \in BOOLEAN : getEventHandler(id, ok)
    \/ \E q \in QueryValues, ok \in BOOLEAN : getEventsHandler(q, ok)
    \/ \E pingOk \in BOOLEAN, st \in PoolStats : dbHealthHandler(pingOk, st)
    \/ basicHealthHandler
    \/ Finish

Spec == Init /\ [][Next]_vars

\* a fresh process in which every caller is about to call New()
InitNew ==
    /\ rows = <<>>
    /\ running = TRUE
    /\ req = Request("none", TRUE)
    /\ resp = Response(0, "")
    /\ pc = [p \in Procs |-> "check"]
    /\ localDb = [p \in Procs |-> 0]
    /\ got = [p \in Procs |-> 0]
    /\ dbInstance = 0
    /\ opened = 0

NextNew == \E p \in Procs : NewCheck(p) \/ NewOpen(p) \/ NewStore(p)

SpecNew == InitNew /\ [][NextNew]_vars

----------------------------------------------------------------------------
(* Properties *)

ReadOps == {"getEvent", "getEvents", "healthDb", "health"}

MissingField(p) == p.Type = "" \/ p.Data = ""

SameFields(r, p) ==
    r.type = p.Type /\ r.data = p.Data /\ r.timestamp = p.Timestamp

RowOf(id) == CHOOSE i \in 1..Len(rows) : rows[i].id = id

HexChars == {Hex[i] : i \in 1..16}

IsUUID(t) ==
    /\ Len(t) = 36
    /\ \A i \in 1..36 : IF i \in {9, 14, 19, 24} THEN t[i] = "-" ELSE t[i] \in HexChars

\* rs2 is rs followed by the first m entries of batch b, in order
Persisted(rs, rs2, b, m) ==
    /\ Len(rs2) = Len(rs) + m
    /\ \A i \in 1..Len(rs) : rs2[i] = rs[i]
    /\ \A i \in 1..m : SameFields(rs2[Len(rs) + i], b[i])

InvalidAt(b) == {i \in 1..Len(b) : MissingField(b[i])}

\* the first item of b that fails when items are processed one by one in order:
\* the first invalid one, or the one whose INSERT fails (0: none)
FirstFailing(b, fault) ==
    LET f == InvalidAt(b) \cup (IF fault = 0 THEN {} ELSE {fault})
    IN  IF f = {} THEN 0 ELSE CHOOSE i \in f : \A j \in f : i <= j

\* the decimal number a text of digits, with an optional sign, denotes
IsNumber(t) ==
    LET body == IF Len(t) > 0 /\ t[1] \in {"-", "+"} THEN Tail(t) ELSE t
    IN  Len(body) > 0 /\ \A i \in 1..Len(body) : body[i] \in Digits

RECURSIVE Decimal(_)
Decimal(t) ==
    IF Len(t) = 0 THEN 0
    ELSE IF t[1] = "-" THEN 0 - Decimal(Tail(t))
    ELSE IF t[1] = "+" THEN Decimal(Tail(t))
    ELSE Decimal(SubSeq(t, 1, Len(t) - 1)) * 10
            + (CHOOSE d \in 0..9 : Hex[d + 1] = t[Len(t)])

NotSupplied(q) == ~q.present \/ q.text = EmptyText

\* events are the newest rows, newest first
NewestFirst(events, rs) ==
    /\ Len(events) <= Len(rs)
    /\ \A i \in 1..Len(events) : events[i] = rs[Len(rs) + 1 - i]

\* C1: a get-by-id with the id of a persisted event succeeds and returns that
\* event's type, data and timestamp.
C1_RoundTrip ==
    (req.op = "getEvent" /\ req.auth /\ req.fault = 0 /\ req.id \in Ids(rows)) =>
        /\ resp.status = 200
        /\ Len(resp.events) = 1
        /\ SameFields(rows[RowOf(req.id)], resp.events[1])

\* C2: a single-event submission whose type or data is empty is answered 400
\* and leaves the table as it was.
C2_InvalidRejected ==
    [][(req'.op = "postEvent" /\ req'.auth /\ MissingField(req'.payload)) =>
            (resp'.status = 400 /\ ~resp'.queried /\ rows' = rows)]_vars

C2_Witness ==
    /\ req.op = "postEvent" /\ req.auth
    /\ MissingField(req.payload)
    /\ resp.status = 400
    /\ Len(rows) > 0

\* C3 as claimed: a batch stops at its first failing item k, invalid or failed
\* INSERT; the items before k are persisted, none from k on, and one error is
\* reported without per-item results.
C3_StopsAtFirstFailingItem ==
    [][LET k == FirstFailing(req'.batch, req'.fault)
       IN  (req'.op = "postEvents" /\ req'.auth /\ k # 0) =>
               /\ resp'.status = IF k \in InvalidAt(req'.batch) THEN 400 ELSE 500
               /\ resp'.ids = <<>>
               /\ Persisted(rows, rows', req'.batch, k - 1)]_vars

\* C3 as amended: a batch with any invalid item is answered 400 with nothing
\* persisted; a batch of valid items whose k-th INSERT fails is answered 500
\* with exactly the items before k persisted, in order, and no per-item results.
\* service.CreateEvents likewise keeps the rows before the failing INSERT.
C3_BatchAbort ==
    [][/\ (req'.op = "postEvents" /\ req'.auth) =>
            IF InvalidAt(req'.batch) # {}
            THEN resp'.status = 400 /\ resp'.ids = <<>> /\ rows' = rows
            ELSE IF req'.fault # 0
            THEN /\ resp'.status = 500
                 /\ resp'.ids = <<>>
                 /\ Persisted(rows, rows', req'.batch, req'.fault - 1)
            ELSE /\ resp'.status = 200
                 /\ Len(resp'.ids) = Len(req'.batch)
                 /\ Persisted(rows, rows', req'.batch, Len(req'.batch))
       /\ (req'.op = "postEvents" /\ req'.auth /\ InvalidAt(req'.batch) = {}) =>
            LET b == req'.batch
                fault == req'.fault
                us == CHOOSE d \in Draws(rows, Len(b)) : TRUE
                r == CreateEvents(rows, b, us, fault)
            IN  IF fault = 0
                THEN r.err = "" /\ Persisted(rows, r.rows, b, Len(b))
                        /\ Len(r.ids) = Len(b)
                ELSE r.err # "" /\ Persisted(rows, r.rows, b, fault - 1)
                        /\ r.ids = <<>>]_vars

C3_Witness ==
    /\ req.op = "postEvents" /\ req.auth
    /\ Len(req.batch) = 2 /\ req.fault = 2
    /\ resp.status = 500
    /\ Len(rows) >= 2
    /\ SameFields(rows[Len(rows)], req.batch[1])

C5_NotFound404 ==
    (req.op = "getEvent" /\ req.auth /\ req.fault = 0 /\ req.id \notin Ids(rows)) =>
        (resp.status = 404 /\ resp.events = <<>>)

\* C5 as amended: a get-by-id whose id no persisted event has returns no event
\* and is answered 500, the status of any other store failure; the error is
\* the store's no-row error unless the query itself failed.
C5_NotFoundAs500 ==
    (req.op = "getEvent" /\ req.auth /\ req.id \notin Ids(rows)) =>
        /\ resp.status = 500
        /\ resp.events = <<>>
        /\ req.fault = 0 => resp.err = "ErrNoRows"

C5_Witness ==
    /\ req.op = "getEvent" /\ req.auth /\ req.fault = 0
    /\ req.id \notin Ids(rows) /\ req.id # EmptyText
    /\ Len(rows) > 0
    /\ resp.status = 500

\* C6: every stored id is a UUID the service generated, never the id the
\* request carried; no two rows share an id; a stored id never changes.
C6_IdsAssignedByService ==
    [][/\ \A i \in 1..Len(rows') : IsUUID(rows'[i].id)
       /\ \A i, j \in 1..Len(rows') : i # j => rows'[i].id # rows'[j].id
       /\ Len(rows') >= Len(rows)
       /\ \A i \in 1..Len(rows) : rows'[i].id = rows[i].id
       /\ req'.op = "postEvent" =>
            \A i \in (Len(rows) + 1)..Len(rows') :
                rows'[i].id # FormatUint(req'.payload.ID)
       /\ req'.op = "postEvents" =>
            \A i \in (Len(rows) + 1)..Len(rows') :
                rows'[i].id # FormatUint(req'.batch[i - Len(rows)].ID)]_vars

C6_Witness ==
    /\ req.op = "postEvent" /\ req.auth
    /\ req.payload.ID = 7
    /\ resp.status = 200
    /\ Len(rows) >= 2
    /\ resp.ids = <<rows[Len(rows)].id>>

\* C7: a persisted row stays in the table with the same type, data and
\* timestamp whatever operation runs, and get-by-id, list and the health checks
\* leave the table as it was.
C7_RowsImmutable ==
    [][/\ Len(rows') >= Len(rows)
       /\ \A i \in 1..Len(rows) : rows'[i] = rows[i]
       /\ req'.op \in ReadOps => rows' = rows]_vars

C7_Witness ==
    /\ req.op = "getEvents" /\ req.auth
    /\ resp.status = 200
    /\ Len(rows) >= 2
    /\ Len(resp.events) = Len(rows)

\* C8: the health check answers "down" with a non-empty error when the ping
\* fails, and the service keeps running; it answers "up" with non-negative pool
\* metrics when the ping succeeds.
C8_HealthReported ==
    (req.op = "healthDb" /\ req.auth) =>
        /\ resp.status = 200
        /\ running
        /\ IF req.fault # 0
           THEN resp.health.status = "down" /\ resp.health.error # ""
           ELSE /\ resp.health.status = "up"
                /\ IsNumber(resp.health.open_connections)
                /\ Decimal(resp.health.open_connections) >= 0
                /\ Decimal(resp.health.wait_count) >= 0

\* C9: max is 50 when the request does not supply it, and a max that is not a
\* number is answered 400 without the store being queried.
C9_MaxDefaultAndValidation ==
    (req.op = "getEvents" /\ req.auth) =>
        /\ (NotSupplied(req.max) /\ req.fault = 0) =>
                (resp.status = 200 /\ resp.max = 50)
        /\ (~NotSupplied(req.max) /\ ~IsNumber(req.max.text)) =>
                (resp.status = 400 /\ ~resp.queried)

\* C10: however calls to New() interleave, sql.Open runs at most once and every
\* caller gets the same handle.
C10_SingleHandle ==
    /\ opened <= 1
    /\ \A p, q \in Procs : (got[p] # 0 /\ got[q] # 0) => got[p] = got[q]

====
